---------------------------- MODULE Spec2Model ----------------------------
(***************************************************************************)
(* Interrupt-driven step sequencers of the ATtiny repository.              *)
(*                                                                         *)
(*   Remote-clock variant  src/85/sequencer_pwm_uart/main.c  (ATtiny85)    *)
(*   Local-clock variant   src/sequencer/main.c              (ATtiny13)    *)
(*                                                                         *)
(* Each program is a main polling loop preempted by timer interrupts.  The *)
(* main loop is cut into steps at its accesses to memory shared with an    *)
(* interrupt handler; a handler runs to completion (interrupts do not      *)
(* nest) and may run between any two main steps while the I flag is set.   *)
(***************************************************************************)
EXTENDS Integers, Sequences, FiniteSets

(***************************************************************************)
(* Bit arithmetic on machine words.                                        *)
(***************************************************************************)
RECURSIVE BitAnd(_, _)
BitAnd(a, b) ==
  IF a = 0 \/ b = 0 THEN 0
  ELSE (a % 2) * (b % 2) + 2 * BitAnd(a \div 2, b \div 2)

U16(x) == x % 65536

(***************************************************************************)
(*                      REMOTE-CLOCK VARIANT (ATtiny85)                    *)
(***************************************************************************)

\* sequencer.h is not among the sources.  The frame bits are those of the
\* header comment of main.c (0x58 start and clock, 0x50 stop, Bit[2:0] select).
SEQUENCER_BYTE_GROUP_START_BIT == 88
SEQUENCER_BYTE_GROUP_BIT == 80
SEQUENCER_BYTE_PROGRAM_MASK == 7
SEQUENCER_BYTE_START_BIT == 8

\* Table dimensions of sequencer.h: the model is parametric in them.
SEQUENCER_PROGRAM_COUNTUPTO == 3
SEQUENCER_PROGRAM_LENGTH == 2

\* Bit count of one forwarded frame (main.c line 114).
TX_FRAME_BITS == 9

\* The change bit of software_uart_rx_status (software_uart.h, not among the
\* sources): the receive handler flips it when a byte lands.
SOFTWARE_UART_STATUS_RX_BUFFER_CHANGE_BIT == 1

\* Saturation of the observer counting decodes since the last start.
MaxDecodes == 5

\* The receive handler delivers at most this many start frames more than
\* main() has counted clocks, where the frames are counted.
MaxFramesAhead == 2

\* Bytes the serial partner sends: 0x58 and 0x59 (start and clock of programs
\* 0 and 1), 0x5F (start and clock, select field 7, past the table), 0x50
\* (stop) and 0x00 (start bit clear, another device group).
RxBytes == {0, 80, 88, 89, 95}

\* sequencer_program_array[SEQUENCER_PROGRAM_LENGTH][SEQUENCER_PROGRAM_COUNTUPTO]
\* (sequencer.h): the entries are pairwise different so that a wrong row or
\* column shows in the forwarded byte.
sequencer_program_array(p, s) == 16 * (p + 1) + s

\* pgm_read_byte of the table: a read outside it returns whatever byte the
\* flash holds there.
PgmReadProgram(p, idx) ==
  IF p \in 0..(SEQUENCER_PROGRAM_LENGTH - 1) /\ idx \in 0..(SEQUENCER_PROGRAM_COUNTUPTO - 1)
  THEN {sequencer_program_array(p, idx)}
  ELSE {0, 255}

VARIABLES
  pc85,                            \* position of main() of the remote variant
  count_last,
  program_index,
  uart_status_buffer_change_last,
  uart_byte_last,
  sequencer_count_update,
  sequencer_is_start,
  sequencer_program_byte,
  software_uart_rx_status,
  software_uart_rx_byte_buffer,
  software_uart_tx_byte,
  software_uart_tx_count,
  OCR0B,
  decodes,                         \* observer: decodes since the last start
  rx_frames_observed,              \* observer: 1 when the frames are counted
  rx_start_frames_ahead            \* observer: start frames delivered less clocks counted

\* State of the local-clock variant (src/sequencer/main.c).
VARIABLES
  pc13,                            \* position of main() of the local variant
  SREG_I,                          \* global interrupt enable
  input_pin,
  count_per_2pi_buffer,
  fixed_delta_sawtooth_buffer,
  sequencer_count_last,
  sequencer_value,
  osccal_tuning,
  osccal_pitch,
  count_update_reg,                \* sequencer_count_update as loaded by line 150
  sample_count,
  count_per_2pi,
  fixed_value_sawtooth,
  fixed_delta_sawtooth,
  function_start,
  sequencer_count_start,
  sequencer_interval_count,
  sequencer_count_update13,        \* sequencer_count_update of src/sequencer/main.c
  OCR0A,
  OSCCAL,                          \* the oscillator trim register
  pending,                         \* observer: clock steps since line 151 ran
  overruns,                        \* observer: clock steps main() was late for
  selector_changes                 \* observer: changes of the polled selector

vars13 == <<pc13, SREG_I, input_pin, count_per_2pi_buffer,
            fixed_delta_sawtooth_buffer, sequencer_count_last, sequencer_value,
            osccal_tuning, osccal_pitch, count_update_reg, sample_count,
            count_per_2pi, fixed_value_sawtooth, fixed_delta_sawtooth,
            function_start, sequencer_count_start, sequencer_interval_count,
            sequencer_count_update13, OCR0A, OSCCAL, pending,
            overruns, selector_changes>>

\* Locals of main() of the local variant.
locals13 == <<input_pin, count_per_2pi_buffer, fixed_delta_sawtooth_buffer,
              sequencer_count_last, sequencer_value, osccal_tuning,
              osccal_pitch, count_update_reg>>

\* Parameters and state of the waveform synthesizer.
synth13 == <<sample_count, count_per_2pi, fixed_value_sawtooth,
             fixed_delta_sawtooth, function_start, OCR0A>>

\* Observers bounding the schedule and the input.
obs13 == <<pending, overruns, selector_changes>>

\* State of the internal clock.
clock13 == <<sequencer_count_start, sequencer_interval_count,
             sequencer_count_update13>>

\* State of the blocking transmit of src/adc_uart/main.c.
VARIABLES
  pcTx,                            \* instruction of software_uart_tx_38400, 0 outside
  character,                       \* r24
  count,                           \* r19
  i_r22,                           \* i, r22
  tmp_reg,                         \* __tmp_reg__, r0
  SREG_C,                          \* carry flag
  SREG_Z,                          \* zero flag
  PORTB,
  tx_argument,                     \* observer: the byte the function was called with
  tx_levels,                       \* observer: levels written to the tx pin
  tx_cycles                        \* observer: CPU cycles since the last out

varsTx == <<pcTx, character, count, i_r22, tmp_reg, SREG_C, SREG_Z, PORTB,
            tx_argument, tx_levels, tx_cycles>>

\* Registers and flags of the transmit function.
regsTx == <<character, count, i_r22, tmp_reg, SREG_C, SREG_Z>>

\* The amplifier, src/amplifier/main.c.
VARIABLES
  input_sensitivity_count,         \* uint16_t, line 76
  input_pin_last,                  \* uint8_t, line 77
  input_pin_buffer,                \* uint8_t, line 78: the gain applied
  OCR0A_amp,                       \* OCR0A of the amplifier
  gain_pins_shown,                 \* observer: the gain pins of the last sample
  gain_pins_run                    \* observer: consecutive samples showing them

varsAmp == <<input_sensitivity_count, input_pin_last, input_pin_buffer,
             OCR0A_amp, gain_pins_shown, gain_pins_run>>

vars85 == <<pc85, count_last, program_index, uart_status_buffer_change_last,
            uart_byte_last, sequencer_count_update, sequencer_is_start,
            sequencer_program_byte, software_uart_rx_status,
            software_uart_rx_byte_buffer, software_uart_tx_byte,
            software_uart_tx_count, OCR0B, decodes, rx_frames_observed,
            rx_start_frames_ahead>>

\* Observers of the frames delivered and the clocks counted.
obsRx == <<rx_frames_observed, rx_start_frames_ahead>>

\* (byte & SEQUENCER_BYTE_GROUP_START_BIT) == SEQUENCER_BYTE_GROUP_START_BIT
IsStartByte(b) ==
  BitAnd(b, SEQUENCER_BYTE_GROUP_START_BIT) = SEQUENCER_BYTE_GROUP_START_BIT

\* (byte & SEQUENCER_BYTE_GROUP_START_BIT) == SEQUENCER_BYTE_GROUP_BIT
IsStopByte(b) ==
  BitAnd(b, SEQUENCER_BYTE_GROUP_START_BIT) = SEQUENCER_BYTE_GROUP_BIT

\* software_uart_rx_status & SOFTWARE_UART_STATUS_RX_BUFFER_CHANGE_BIT
RxChange(status) == BitAnd(status, SOFTWARE_UART_STATUS_RX_BUFFER_CHANGE_BIT)

\* Lines 103-105: the counter restarts at 1 past the last step.
WrapCount_zero(c) == IF c > SEQUENCER_PROGRAM_COUNTUPTO THEN 0 ELSE c
WrapCount_late(c) == IF c > SEQUENCER_PROGRAM_COUNTUPTO + 1 THEN 1 ELSE c
WrapCount(c) == IF c > SEQUENCER_PROGRAM_COUNTUPTO THEN 1 ELSE c

\* Lines 107-109: select field of the latest byte, clamped to the last row.
ProgramIndex_unclamped(b) == BitAnd(b, SEQUENCER_BYTE_PROGRAM_MASK)
ProgramIndex(b) ==
  LET i == BitAnd(b, SEQUENCER_BYTE_PROGRAM_MASK)
  IN  IF i >= SEQUENCER_PROGRAM_LENGTH THEN SEQUENCER_PROGRAM_LENGTH - 1 ELSE i

\* Lines 38-87: the variables of the program at the entry of the loop.
Init85Main ==
  /\ pc85 = "L90"
  /\ count_last = 0
  /\ program_index = 0
  /\ uart_status_buffer_change_last = 0
  /\ uart_byte_last = 0
  /\ sequencer_count_update = 0
  /\ sequencer_is_start = 0
  /\ sequencer_program_byte = 0
  /\ software_uart_rx_status = 0
  /\ software_uart_rx_byte_buffer = 0
  /\ software_uart_tx_byte = 0
  /\ software_uart_tx_count = 0
  /\ OCR0B = 0
  /\ decodes = 0

\* The program at the entry of the loop, the frames not counted.
Init85 ==
  /\ Init85Main
  /\ rx_frames_observed = 0
  /\ rx_start_frames_ahead = 0

\* Line 90: the change bit is compared with the one seen last.
Main85_L90 ==
  /\ pc85 = "L90"
  /\ pc85' = IF uart_status_buffer_change_last # RxChange(software_uart_rx_status)
             THEN "L91" ELSE "L95"
  /\ UNCHANGED <<count_last, program_index, uart_status_buffer_change_last,
                 uart_byte_last, sequencer_count_update, sequencer_is_start,
                 sequencer_program_byte, software_uart_rx_status,
                 software_uart_rx_byte_buffer, software_uart_tx_byte,
                 software_uart_tx_count, OCR0B, decodes>>
  /\ UNCHANGED <<vars13, varsTx, varsAmp, obsRx>>

\* Line 91: the change bit is read again and kept.
Main85_L91 ==
  /\ pc85 = "L91"
  /\ uart_status_buffer_change_last' = RxChange(software_uart_rx_status)
  /\ pc85' = "L92"
  /\ UNCHANGED <<count_last, program_index, uart_byte_last,
                 sequencer_count_update, sequencer_is_start,
                 sequencer_program_byte, software_uart_rx_status,
                 software_uart_rx_byte_buffer, software_uart_tx_byte,
                 software_uart_tx_count, OCR0B, decodes>>
  /\ UNCHANGED <<vars13, varsTx, varsAmp, obsRx>>

\* Line 93: a start byte clocks the running sequencer.
ClockCount_twice(b, running, c) ==
  IF IsStartByte(b) /\ running # 0 THEN U16(c + 2) ELSE c
ClockCount(b, running, c) ==
  IF IsStartByte(b) /\ running # 0 THEN U16(c + 1) ELSE c

\* Lines 92-93: the byte buffer is read, and the byte clocks the counter.
Main85_L92 ==
  /\ pc85 = "L92"
  /\ uart_byte_last' = software_uart_rx_byte_buffer
  /\ sequencer_count_update' =
       ClockCount(software_uart_rx_byte_buffer, sequencer_is_start, sequencer_count_update)
  /\ pc85' = "L95"
  /\ UNCHANGED <<count_last, program_index, uart_status_buffer_change_last,
                 sequencer_is_start, sequencer_program_byte,
                 software_uart_rx_status, software_uart_rx_byte_buffer,
                 software_uart_tx_byte, software_uart_tx_count, OCR0B, decodes>>
  /\ rx_start_frames_ahead' =
       IF rx_frames_observed = 1 /\ rx_start_frames_ahead >= 0
          /\ ClockCount(software_uart_rx_byte_buffer, sequencer_is_start,
                        sequencer_count_update) # sequencer_count_update
       THEN rx_start_frames_ahead - 1
       ELSE rx_start_frames_ahead
  /\ UNCHANGED <<vars13, varsTx, varsAmp, rx_frames_observed>>

\* Line 99: the byte that stops the running sequencer.
StopsSequencer_startbit(b) ==
  BitAnd(b, SEQUENCER_BYTE_GROUP_START_BIT) = SEQUENCER_BYTE_START_BIT
StopsSequencer(b) == IsStopByte(b)

\* Line 96: the counter value a start sets.
StartCount_keep(c) == c
StartCount(c) == 1

\* Lines 95-101: start when idle, stop when running.
Main85_L95 ==
  /\ pc85 = "L95"
  /\ IF IsStartByte(uart_byte_last) /\ sequencer_is_start = 0
     THEN /\ sequencer_count_update' = StartCount(sequencer_count_update)
          /\ count_last' = 0
          /\ sequencer_is_start' = 1
          /\ decodes' = 0
     ELSE IF StopsSequencer(uart_byte_last) /\ sequencer_is_start # 0
     THEN /\ sequencer_is_start' = 0
          /\ UNCHANGED <<sequencer_count_update, count_last, decodes>>
     ELSE UNCHANGED <<sequencer_count_update, count_last, sequencer_is_start, decodes>>
  /\ pc85' = "L102"
  /\ UNCHANGED <<program_index, uart_status_buffer_change_last, uart_byte_last,
                 sequencer_program_byte, software_uart_rx_status,
                 software_uart_rx_byte_buffer, software_uart_tx_byte,
                 software_uart_tx_count, OCR0B>>
  /\ UNCHANGED <<vars13, varsTx, varsAmp, obsRx>>

\* Lines 102-109: on a change of the counter, wrap it, keep it, select the row.
Main85_L102 ==
  /\ pc85 = "L102"
  /\ IF sequencer_count_update # count_last
     THEN /\ sequencer_count_update' = WrapCount(sequencer_count_update)
          /\ count_last' = WrapCount(sequencer_count_update)
          /\ program_index' = ProgramIndex(uart_byte_last)
          /\ decodes' = IF decodes < MaxDecodes THEN decodes + 1 ELSE decodes
          /\ pc85' = "L112"
     ELSE /\ pc85' = "L90"
          /\ UNCHANGED <<sequencer_count_update, count_last, program_index, decodes>>
  /\ UNCHANGED <<uart_status_buffer_change_last, uart_byte_last,
                 sequencer_is_start, sequencer_program_byte,
                 software_uart_rx_status, software_uart_rx_byte_buffer,
                 software_uart_tx_byte, software_uart_tx_count, OCR0B>>
  /\ UNCHANGED <<vars13, varsTx, varsAmp, obsRx>>

\* Line 112: the table entry [program_index][count_last - 1] is read.
Main85_L112 ==
  /\ pc85 = "L112"
  /\ \E v \in PgmReadProgram(program_index, count_last - 1) :
       sequencer_program_byte' = v
  /\ pc85' = "L113"
  /\ UNCHANGED <<count_last, program_index, uart_status_buffer_change_last,
                 uart_byte_last, sequencer_count_update, sequencer_is_start,
                 software_uart_rx_status, software_uart_rx_byte_buffer,
                 software_uart_tx_byte, software_uart_tx_count, OCR0B, decodes>>
  /\ UNCHANGED <<vars13, varsTx, varsAmp, obsRx>>

\* Line 113: the byte is handed to the serial layer.
Main85_L113 ==
  /\ pc85 = "L113"
  /\ software_uart_tx_byte' = sequencer_program_byte
  /\ pc85' = "L114"
  /\ UNCHANGED <<count_last, program_index, uart_status_buffer_change_last,
                 uart_byte_last, sequencer_count_update, sequencer_is_start,
                 sequencer_program_byte, software_uart_rx_status,
                 software_uart_rx_byte_buffer, software_uart_tx_count, OCR0B,
                 decodes>>
  /\ UNCHANGED <<vars13, varsTx, varsAmp, obsRx>>

\* Line 114: the bit count starts the frame.
Main85_L114 ==
  /\ pc85 = "L114"
  /\ software_uart_tx_count' = TX_FRAME_BITS
  /\ pc85' = "L90"
  /\ UNCHANGED <<count_last, program_index, uart_status_buffer_change_last,
                 uart_byte_last, sequencer_count_update, sequencer_is_start,
                 sequencer_program_byte, software_uart_rx_status,
                 software_uart_rx_byte_buffer, software_uart_tx_byte, OCR0B,
                 decodes>>
  /\ UNCHANGED <<vars13, varsTx, varsAmp, obsRx>>

\* Line 121: the PWM compare value written while the sequencer runs.
Ocr0bNext_always(running, byte, old) == byte
Ocr0bNext(running, byte, old) == IF running # 0 THEN byte ELSE old

\* ISR(TIMER0_OVF_vect), lines 120-122.
ISR_TIMER0_OVF ==
  /\ OCR0B' = Ocr0bNext(sequencer_is_start, sequencer_program_byte, OCR0B)
  /\ UNCHANGED <<pc85, count_last, program_index, uart_status_buffer_change_last,
                 uart_byte_last, sequencer_count_update, sequencer_is_start,
                 sequencer_program_byte, software_uart_rx_status,
                 software_uart_rx_byte_buffer, software_uart_tx_byte,
                 software_uart_tx_count, decodes>>
  /\ UNCHANGED <<vars13, varsTx, varsAmp, obsRx>>

\* software_uart_handler_rx_tx (software_uart.h, not among the sources), transmit
\* side: a pending frame is shifted out one bit per bit time.
UartTxShift ==
  /\ software_uart_tx_count > 0
  /\ software_uart_tx_count' = software_uart_tx_count - 1
  /\ UNCHANGED <<software_uart_rx_status, software_uart_rx_byte_buffer,
                 rx_start_frames_ahead>>

\* Receive side: a completed frame is stored and the change bit flipped.
UartRxComplete(b) ==
  /\ software_uart_rx_byte_buffer' = b
  /\ software_uart_rx_status' =
       (IF RxChange(software_uart_rx_status) = 0
        THEN software_uart_rx_status + SOFTWARE_UART_STATUS_RX_BUFFER_CHANGE_BIT
        ELSE software_uart_rx_status - SOFTWARE_UART_STATUS_RX_BUFFER_CHANGE_BIT)
  /\ IF rx_frames_observed = 1 /\ IsStartByte(b)
     THEN /\ rx_start_frames_ahead < MaxFramesAhead
          /\ rx_start_frames_ahead' = rx_start_frames_ahead + 1
     ELSE UNCHANGED rx_start_frames_ahead
  /\ UNCHANGED software_uart_tx_count

\* ISR(TIMER1_OVF_vect), lines 124-126.
ISR_TIMER1_OVF ==
  /\ \/ UartTxShift
     \/ \E b \in RxBytes : UartRxComplete(b)
  /\ UNCHANGED <<pc85, count_last, program_index, uart_status_buffer_change_last,
                 uart_byte_last, sequencer_count_update, sequencer_is_start,
                 sequencer_program_byte, software_uart_tx_byte, OCR0B, decodes>>
  /\ UNCHANGED <<vars13, varsTx, varsAmp, rx_frames_observed>>

(***************************************************************************)
(*                      LOCAL-CLOCK VARIANT (ATtiny13)                     *)
(***************************************************************************)

PEAK_LOW == 0
SEQUENCER_COUNTUPTO == 64
SEQUENCER_SEQUENCENUMBER == 3

\* SEQUENCER_INTERVAL (4687 in line 39) scaled down: the number of timer
\* overflows per sequencer step.  The handler compares against it only.
SEQUENCER_INTERVAL == 2

\* The schedule is bounded: main() is late for a clock step (the next one
\* lands before line 151 has copied the counter) at most this often.
MaxOverruns == 1

\* The input is bounded: the polled selector changes at most this often.
MaxSelectorChanges == 2

\* sequencer_array, lines 71-84, row after row as it lies in program space.
sequencer_array ==
  << 6,  0,  6,  0,  6,  0,  6,  0,  6,  8,  4,  5,  6,  6,  0,  6,
     7,  0,  7,  0,  7,  6,  0,  6,  6,  5,  5,  6,  5,  5,  8,  8,
     6,  0,  6,  0,  6,  0,  6,  0,  6,  8,  4,  5,  6,  6,  0,  6,
     7,  0,  7,  0,  7,  6,  0,  6,  8,  8,  7,  5,  4,  4,  0,  4,
     0,  4,  4,  6,  6,  8,  8, 10, 10, 11, 11, 11,  6,  6,  4,  4,
     0,  2,  2,  4,  4,  6,  6,  8,  8,  9,  9,  9,  4,  4,  2,  2,
     0,  2,  2,  2,  6,  6,  6,  6,  8,  8,  8,  8,  9,  9,  9,  9,
     0,  2,  2,  4,  4,  6,  6,  8,  8,  9,  9,  9,  4,  4,  2,  2,
     8,238,237,236,235,234,233,232,231,232,233,234,235,236,237,238,
   239,240,241,242,243,244,245,246,247,246,245,244,243,242,241,240,
     2,238,237,236,235,234,233,232,231,232,233,234,235,236,237,238,
   239,240,241,242,243,244,245,246,247,246,245,244,243,242,241,240 >>

\* pgm_read_byte(&(sequencer_array[row][idx])): the rows are contiguous, and a
\* read past the last row returns whatever byte the flash holds there.
PgmReadSequence(row, idx) ==
  LET flat == row * SEQUENCER_COUNTUPTO + idx
  IN  IF flat \in 0..(Len(sequencer_array) - 1)
      THEN {sequencer_array[flat + 1]}
      ELSE {0, 255}

\* Lines 156-199: the note chain, step value -> <<count_per_2pi_buffer,
\* fixed_delta_sawtooth_buffer, osccal_tuning>>.
NoteChain ==
  [v \in 1..11 |->
     CASE v = 11 -> <<35, 7 * 128 + 36, 1>>
       [] v = 10 -> <<37, 6 * 128 + 114, 0>>
       [] v = 9  -> <<41, 6 * 128 + 28, -1>>
       [] v = 8  -> <<47, 5 * 128 + 54, 1>>
       [] v = 7  -> <<52, 4 * 128 + 115, 1>>
       [] v = 6  -> <<56, 4 * 128 + 70, 1>>
       [] v = 5  -> <<63, 4 * 128 + 6, 1>>
       [] v = 4  -> <<70, 3 * 128 + 82, 0>>
       [] v = 3  -> <<75, 3 * 128 + 51, 0>>
       [] v = 2  -> <<84, 3 * 128 + 4, 0>>
       [] v = 1  -> <<95, 2 * 128 + 87, 1>>]

\* Lines 111-112: the calibrated trim of the oscillator, read from the device
\* at start; the trims of the notes are offsets from it.
osccal_default == 0

\* Lines 91-138: the variables of the program at the entry of the loop.
Init13Main ==
  /\ pc13 = "L141"
  /\ SREG_I = 1
  /\ input_pin = 0
  /\ count_per_2pi_buffer = 0
  /\ fixed_delta_sawtooth_buffer = 0
  /\ sequencer_count_last = 0
  /\ sequencer_value = 0
  /\ osccal_tuning = 0
  /\ osccal_pitch = 0
  /\ count_update_reg = 0
  /\ sample_count = 0
  /\ count_per_2pi = 0
  /\ fixed_value_sawtooth = 0
  /\ fixed_delta_sawtooth = 0
  /\ function_start = 0
  /\ sequencer_count_start = 0
  /\ sequencer_interval_count = 0
  /\ sequencer_count_update13 = 0
  /\ OCR0A = PEAK_LOW
  /\ OSCCAL = osccal_default

\* The program at the entry of the loop of main(), with the whole budget of
\* the schedule.
Init13 ==
  /\ Init13Main
  /\ pending = 0
  /\ overruns = 0
  /\ selector_changes = 0

\* cli() and sei(): the value of the I flag after each.
Cli_omitted(i) == i
Cli(i) == 0
Sei(i) == 1

\* Lines 141-148: the two buttons are polled into the 2-bit selector.
Main13_L141 ==
  /\ pc13 = "L141"
  /\ \E raw \in 0..3 :
       /\ raw = input_pin \/ selector_changes < MaxSelectorChanges
       /\ selector_changes' = IF raw = input_pin THEN selector_changes
                                                ELSE selector_changes + 1
       /\ input_pin' = raw
       /\ pc13' = IF raw # 0 THEN "L149" ELSE "L226"
  /\ UNCHANGED <<SREG_I, count_per_2pi_buffer, fixed_delta_sawtooth_buffer,
                 sequencer_count_last, sequencer_value, osccal_tuning,
                 osccal_pitch, count_update_reg, OSCCAL, pending, overruns>>
  /\ UNCHANGED <<synth13, clock13, vars85, varsTx, varsAmp>>

\* Line 149: not started yet, or the counter moved.
Main13_L149 ==
  /\ pc13 = "L149"
  /\ pc13' = IF sequencer_count_start = 0
                \/ sequencer_count_update13 # sequencer_count_last
             THEN "L150" ELSE "L141"
  /\ UNCHANGED <<SREG_I, locals13, synth13, clock13, OSCCAL, obs13, vars85, varsTx, varsAmp>>

\* Line 150, the test: the counter is loaded and compared.
Main13_L150 ==
  /\ pc13 = "L150"
  /\ count_update_reg' = sequencer_count_update13
  /\ pc13' = IF sequencer_count_update13 >= SEQUENCER_COUNTUPTO
             THEN "L150w" ELSE "L151"
  /\ UNCHANGED <<SREG_I, input_pin, count_per_2pi_buffer,
                 fixed_delta_sawtooth_buffer, sequencer_count_last,
                 sequencer_value, osccal_tuning, osccal_pitch, OSCCAL>>
  /\ UNCHANGED <<synth13, clock13, obs13, vars85, varsTx, varsAmp>>

\* Line 150, the store: the counter restarts at 0.
Main13_L150w ==
  /\ pc13 = "L150w"
  /\ sequencer_count_update13' = 0
  /\ count_update_reg' = 0
  /\ pc13' = "L151"
  /\ UNCHANGED <<SREG_I, input_pin, count_per_2pi_buffer,
                 fixed_delta_sawtooth_buffer, sequencer_count_last,
                 sequencer_value, osccal_tuning, osccal_pitch, OSCCAL>>
  /\ UNCHANGED <<synth13, sequencer_count_start, sequencer_interval_count,
                 obs13, vars85, varsTx, varsAmp>>

\* Line 151: the values the copy can take. sequencer_count_update is not
\* volatile: the build either loads it again or keeps the value line 150 loaded.
CountLastSources_reg(reg, mem) == {reg}
CountLastSources(reg, mem) == {reg, mem}

\* Line 151: the counter is copied to sequencer_count_last.
Main13_L151 ==
  /\ pc13 = "L151"
  /\ \E v \in CountLastSources(count_update_reg, sequencer_count_update13) :
       sequencer_count_last' = v
  /\ count_update_reg' = 0
  /\ pending' = 0
  /\ pc13' = "L152"
  /\ UNCHANGED <<SREG_I, input_pin, count_per_2pi_buffer,
                 fixed_delta_sawtooth_buffer, sequencer_value, osccal_tuning,
                 osccal_pitch, OSCCAL, overruns, selector_changes>>
  /\ UNCHANGED <<synth13, clock13, vars85, varsTx, varsAmp>>

\* Line 153: the selector is clamped to the last sequence.
ClampInputPin_low(pin) == IF pin >= 2 THEN 2 ELSE pin
ClampInputPin(pin) ==
  IF pin >= SEQUENCER_SEQUENCENUMBER THEN SEQUENCER_SEQUENCENUMBER ELSE pin

\* Lines 152-154: the sequencer is started, and the step value is read.
Main13_L152 ==
  /\ pc13 = "L152"
  /\ sequencer_count_start' = 1
  /\ input_pin' = ClampInputPin(input_pin)
  /\ \E v \in PgmReadSequence(ClampInputPin(input_pin) - 1, sequencer_count_last) :
       sequencer_value' = v
  /\ pc13' = "L156"
  /\ UNCHANGED <<SREG_I, count_per_2pi_buffer, fixed_delta_sawtooth_buffer,
                 sequencer_count_last, osccal_tuning, osccal_pitch,
                 count_update_reg, OSCCAL>>
  /\ UNCHANGED <<synth13, sequencer_interval_count, sequencer_count_update13,
                 obs13, vars85, varsTx, varsAmp>>

\* Lines 156-206: the step value is decoded to <<count_per_2pi_buffer,
\* fixed_delta_sawtooth_buffer, osccal_tuning, osccal_pitch>>.
Decode_calibration_silences(v, cpb, fdb, tun, pit) ==
  IF v \in 1..11 THEN <<NoteChain[v][1], NoteChain[v][2], NoteChain[v][3], pit>>
  ELSE IF v >= 223 THEN <<0, 0, 0, v - 239>>
  ELSE <<0, 0, 0, pit>>
Decode_unknown_keeps(v, cpb, fdb, tun, pit) ==
  IF v \in 1..11 THEN <<NoteChain[v][1], NoteChain[v][2], NoteChain[v][3], pit>>
  ELSE IF v >= 223 THEN <<cpb, fdb, tun, v - 239>>
  ELSE <<cpb, fdb, tun, pit>>
Decode(v, cpb, fdb, tun, pit) ==
  IF v \in 1..11 THEN <<NoteChain[v][1], NoteChain[v][2], NoteChain[v][3], pit>>
  ELSE IF v >= 223 THEN <<cpb, fdb, tun, v - 239>>
  ELSE <<0, 0, 0, pit>>

\* Lines 207-208: the branch taken after the decode, by the decoded wrap
\* period and the wrap period of the note that sounds.
HandoffBranch_restart(buffer, current) ==
  IF buffer # 0 THEN "L209" ELSE "L216"
HandoffBranch(buffer, current) ==
  IF buffer # current
  THEN (IF buffer # 0 THEN "L209" ELSE "L216")
  ELSE "L223"

\* Lines 156-208: decode, then the branch on a changed wrap period.
Main13_L156 ==
  LET d == Decode(sequencer_value, count_per_2pi_buffer,
                  fixed_delta_sawtooth_buffer, osccal_tuning, osccal_pitch)
  IN  /\ pc13 = "L156"
      /\ count_per_2pi_buffer' = d[1]
      /\ fixed_delta_sawtooth_buffer' = d[2]
      /\ osccal_tuning' = d[3]
      /\ osccal_pitch' = d[4]
      /\ pc13' = HandoffBranch(d[1], count_per_2pi)
      /\ UNCHANGED <<SREG_I, input_pin, sequencer_count_last, sequencer_value,
                     count_update_reg, OSCCAL>>
      /\ UNCHANGED <<synth13, clock13, obs13, vars85, varsTx, varsAmp>>

\* Lines 209, 216 and 227: cli().
Main13_cli ==
  /\ pc13 \in {"L209", "L216", "L227"}
  /\ SREG_I' = Cli(SREG_I)
  /\ pc13' = CASE pc13 = "L209" -> "L210"
               [] pc13 = "L216" -> "L217"
               [] pc13 = "L227" -> "L228"
  /\ UNCHANGED <<locals13, synth13, clock13, OSCCAL, obs13, vars85, varsTx, varsAmp>>

\* Lines 210-213: the parameters of the new note are handed over.
Main13_NoteOn ==
  /\ pc13 \in {"L210", "L211", "L212", "L213"}
  /\ CASE pc13 = "L210" ->
            /\ sample_count' = 0
            /\ pc13' = "L211"
            /\ UNCHANGED <<count_per_2pi, fixed_delta_sawtooth, function_start>>
       [] pc13 = "L211" ->
            /\ count_per_2pi' = count_per_2pi_buffer
            /\ pc13' = "L212"
            /\ UNCHANGED <<sample_count, fixed_delta_sawtooth, function_start>>
       [] pc13 = "L212" ->
            /\ fixed_delta_sawtooth' = fixed_delta_sawtooth_buffer
            /\ pc13' = "L213"
            /\ UNCHANGED <<sample_count, count_per_2pi, function_start>>
       [] pc13 = "L213" ->
            /\ function_start' = 1
            /\ pc13' = "L214"
            /\ UNCHANGED <<sample_count, count_per_2pi, fixed_delta_sawtooth>>
  /\ UNCHANGED <<SREG_I, locals13, fixed_value_sawtooth, OCR0A, clock13, OSCCAL,
                 obs13, vars85, varsTx, varsAmp>>

\* Line 219: the compare value of silence.
SilenceCompare_keep(old) == old
SilenceCompare(old) == PEAK_LOW

\* Lines 217-219: silence.
Main13_NoteOff ==
  /\ pc13 \in {"L217", "L218", "L219"}
  /\ CASE pc13 = "L217" ->
            /\ count_per_2pi' = 0
            /\ pc13' = "L218"
            /\ UNCHANGED <<function_start, OCR0A>>
       [] pc13 = "L218" ->
            /\ function_start' = 0
            /\ pc13' = "L219"
            /\ UNCHANGED <<count_per_2pi, OCR0A>>
       [] pc13 = "L219" ->
            /\ OCR0A' = SilenceCompare(OCR0A)
            /\ pc13' = "L220"
            /\ UNCHANGED <<count_per_2pi, function_start>>
  /\ UNCHANGED <<SREG_I, locals13, sample_count, fixed_value_sawtooth,
                 fixed_delta_sawtooth, clock13, OSCCAL, obs13, vars85, varsTx, varsAmp>>

\* Lines 214, 220 and 235: sei().
Main13_sei ==
  /\ pc13 \in {"L214", "L220", "L235"}
  /\ SREG_I' = Sei(SREG_I)
  /\ pc13' = IF pc13 = "L235" THEN "L141" ELSE "L223"
  /\ UNCHANGED <<locals13, synth13, clock13, OSCCAL, obs13, vars85, varsTx, varsAmp>>

\* Line 223: the oscillator trim of the note and of the pitch, an 8-bit
\* register.
Main13_L223 ==
  /\ pc13 = "L223"
  /\ OSCCAL' = (osccal_default + osccal_tuning + osccal_pitch) % 256
  /\ pc13' = "L141"
  /\ UNCHANGED <<SREG_I, locals13, synth13, clock13, obs13, vars85, varsTx, varsAmp>>

\* Line 226: both buttons released while the sequencer runs.
Main13_L226 ==
  /\ pc13 = "L226"
  /\ pc13' = IF sequencer_count_start # 0 THEN "L227" ELSE "L141"
  /\ UNCHANGED <<SREG_I, locals13, synth13, clock13, OSCCAL, obs13, vars85, varsTx, varsAmp>>

\* Line 232: the step counter of the handler after the reset.
ResetCounter_keep(c) == c
ResetCounter(c) == 0

\* Lines 228-234: the reset of the sequencer.
Main13_Reset ==
  /\ pc13 = "L228"
  /\ count_per_2pi' = 0
  /\ function_start' = 0
  /\ sequencer_count_start' = 0
  /\ sequencer_interval_count' = 0
  /\ sequencer_count_update13' = ResetCounter(sequencer_count_update13)
  /\ sequencer_count_last' = 0
  /\ OCR0A' = PEAK_LOW
  /\ pending' = 0
  /\ pc13' = "L235"
  /\ UNCHANGED <<SREG_I, input_pin, count_per_2pi_buffer,
                 fixed_delta_sawtooth_buffer, sequencer_value, osccal_tuning,
                 osccal_pitch, count_update_reg, sample_count,
                 fixed_value_sawtooth, fixed_delta_sawtooth, OSCCAL,
                 overruns, selector_changes, vars85, varsTx, varsAmp>>

\* Lines 252-253: the compare value of the accumulator, bits 14:7 rounded by
\* bit 6.
SawtoothCompare_truncate(fixed) == U16(fixed * 2) \div 256
SawtoothCompare(fixed) ==
  LET temp == U16(fixed * 2) \div 256
  IN  IF BitAnd(64, fixed) # 0 THEN temp + 1 ELSE temp

\* Lines 256-257: the sample counter after the sample, back to 0 past the
\* wrap period.
WrapSample_early(n, p) == IF n >= p THEN 0 ELSE n
WrapSample(n, p) == IF n > p THEN 0 ELSE n

\* Lines 245-258: one sample of the sawtooth wave.
Sawtooth ==
  IF function_start # 0
  THEN /\ IF sample_count = 0
          THEN /\ OCR0A' = PEAK_LOW
               /\ fixed_value_sawtooth' = PEAK_LOW * 128
          ELSE IF sample_count <= count_per_2pi
          THEN /\ fixed_value_sawtooth' = U16(fixed_value_sawtooth + fixed_delta_sawtooth)
               /\ OCR0A' = SawtoothCompare(U16(fixed_value_sawtooth + fixed_delta_sawtooth)) % 256
          ELSE UNCHANGED <<OCR0A, fixed_value_sawtooth>>
       /\ sample_count' = WrapSample(U16(sample_count + 1), count_per_2pi)
  ELSE UNCHANGED <<OCR0A, fixed_value_sawtooth, sample_count>>

\* Line 261: the interval is over.
IntervalElapsed_late(n) == n > SEQUENCER_INTERVAL
IntervalElapsed(n) == n >= SEQUENCER_INTERVAL

\* Lines 259-265: the internal clock of the sequencer.
IntervalClock ==
  IF sequencer_count_start # 0
  THEN IF IntervalElapsed(U16(sequencer_interval_count + 1))
       THEN /\ sequencer_interval_count' = 0
            /\ sequencer_count_update13' = U16(sequencer_count_update13 + 1)
            /\ pending = 0 \/ overruns < MaxOverruns
            /\ pending' = pending + 1
            /\ overruns' = IF pending = 0 THEN overruns ELSE overruns + 1
       ELSE /\ sequencer_interval_count' = U16(sequencer_interval_count + 1)
            /\ UNCHANGED <<sequencer_count_update13, pending, overruns>>
  ELSE UNCHANGED <<sequencer_interval_count, sequencer_count_update13, pending,
                   overruns>>

\* ISR(TIM0_OVF_vect), lines 242-266, taken with the I flag set.
ISR_TIM0_OVF ==
  /\ SREG_I = 1
  /\ Sawtooth
  /\ IntervalClock
  /\ UNCHANGED <<pc13, SREG_I, locals13, count_per_2pi, fixed_delta_sawtooth,
                 function_start, sequencer_count_start, OSCCAL,
                 selector_changes, vars85, varsTx, varsAmp>>

Main13 ==
  \/ Main13_L141
  \/ Main13_L149
  \/ Main13_L150
  \/ Main13_L150w
  \/ Main13_L151
  \/ Main13_L152
  \/ Main13_L156
  \/ Main13_cli
  \/ Main13_NoteOn
  \/ Main13_NoteOff
  \/ Main13_sei
  \/ Main13_L223
  \/ Main13_L226
  \/ Main13_Reset

Next13 ==
  \/ Main13
  \/ ISR_TIM0_OVF


(***************************************************************************)
(* The blocking transmit: software_uart_tx_38400 of src/adc_uart/main.c.   *)
(***************************************************************************)

RECURSIVE BitOr(_, _)
BitOr(a, b) ==
  IF a = 0 THEN b
  ELSE IF b = 0 THEN a
  ELSE (IF a % 2 = 1 \/ b % 2 = 1 THEN 1 ELSE 0) + 2 * BitOr(a \div 2, b \div 2)

\* Line 31: the pin of PORTB the frame is sent on.
software_uart_tx_pin == 3

\* Line 73: the laps of the delay loop of one bit.
count_delay == 59

\* Line 77: the passes of the loop, the start bit and the 8 data bits.
TxLoopPasses == 9

\* Lines 75-76: the masks of the pin.
set_bit_pin == 2 ^ software_uart_tx_pin
clear_bit_pin == 255 - set_bit_pin

\* Lines 79-117 and the return of line 130: the instructions, each with the
\* instruction a jump or a taken branch goes to (0 for the others), in the
\* order of the source.
TxProgram ==
  << <<"clc", 0>>,      \* 1   line 79
     <<"in", 0>>,       \* 2   line 81   software_uart_tx_38400_forloop
     <<"brcc", 6>>,     \* 3   line 82
     <<"or", 0>>,       \* 4   line 83
     <<"rjmp", 8>>,     \* 5   line 84
     <<"and", 0>>,      \* 6   line 86   ..._forloop_carryclear
     <<"nop", 0>>,      \* 7   line 87
     <<"out", 0>>,      \* 8   line 89   ..._forloop_common
     <<"mov", 0>>,      \* 9   line 91
     <<"nop", 0>>,      \* 10  line 93   ..._forloop_common_delay
     <<"subi", 0>>,     \* 11  line 94
     <<"brne", 10>>,    \* 12  line 95
     <<"rjmp", 14>>,    \* 13  line 96
     <<"subi_i", 0>>,   \* 14  line 97
     <<"breq", 19>>,    \* 15  line 98
     <<"nop", 0>>,      \* 16  line 99
     <<"lsr", 0>>,      \* 17  line 100
     <<"rjmp", 2>>,     \* 18  line 101
     <<"in", 0>>,       \* 19  line 103  software_uart_tx_38400_stopbit
     <<"or", 0>>,       \* 20  line 104
     <<"rjmp", 22>>,    \* 21  line 105
     <<"rjmp", 23>>,    \* 22  line 106
     <<"rjmp", 24>>,    \* 23  line 107
     <<"out", 0>>,      \* 24  line 108
     <<"mov", 0>>,      \* 25  line 110
     <<"inc", 0>>,      \* 26  line 111
     <<"nop", 0>>,      \* 27  line 113  ..._stopbit_delay
     <<"subi", 0>>,     \* 28  line 114
     <<"brne", 27>>,    \* 29  line 115
     <<"rjmp", 31>>,    \* 30  line 116
     <<"rjmp", 32>>,    \* 31  line 117
     <<"ret", 0>> >>    \* 32  line 130

TxOp == IF pcTx = 0 THEN "none" ELSE TxProgram[pcTx][1]
TxTarget == TxProgram[pcTx][2]

\* CPU cycles of an instruction of the AVR core: a jump takes 2, a branch 2
\* when taken and 1 when not, every other instruction of the function 1.
TxCycles_flat(op, taken) == 1
TxCycles(op, taken) ==
  IF op = "rjmp" THEN 2
  ELSE IF op \in {"brcc", "brne", "breq"} /\ taken THEN 2
  ELSE 1

\* lsr: the register after the shift, and the carry.
Lsr_left(r) == <<(2 * r) % 256, r \div 128>>
Lsr(r) == <<r \div 2, r % 2>>

\* Lines 28 and 56: the line idles high; main() is outside the function.
InitTx ==
  /\ pcTx = 0
  /\ character = 0
  /\ count = 0
  /\ i_r22 = 0
  /\ tmp_reg = 0
  /\ SREG_C = 0
  /\ SREG_Z = 0
  /\ PORTB = set_bit_pin
  /\ tx_argument = 0
  /\ tx_levels = <<>>
  /\ tx_cycles = 0

\* Lines 48-49 and 73-77: the call, with any byte.
Tx_call ==
  /\ pcTx = 0
  /\ \E b \in 0..255 :
       /\ character' = b
       /\ tx_argument' = b
  /\ i_r22' = TxLoopPasses
  /\ tx_levels' = <<>>
  /\ tx_cycles' = 0
  /\ pcTx' = 1
  /\ UNCHANGED <<count, tmp_reg, SREG_C, SREG_Z, PORTB, vars85, vars13, varsAmp>>

\* clc, mov, subi, inc and lsr: the instructions on registers and flags.
Tx_register ==
  /\ TxOp \in {"clc", "mov", "subi", "subi_i", "inc", "lsr"}
  /\ CASE TxOp = "clc" ->
            /\ SREG_C' = 0
            /\ UNCHANGED <<character, count, i_r22, SREG_Z>>
       [] TxOp = "mov" ->
            /\ count' = count_delay
            /\ UNCHANGED <<character, i_r22, SREG_C, SREG_Z>>
       [] TxOp = "subi" ->
            /\ count' = (count - 1) % 256
            /\ SREG_Z' = IF (count - 1) % 256 = 0 THEN 1 ELSE 0
            /\ SREG_C' = IF count < 1 THEN 1 ELSE 0
            /\ UNCHANGED <<character, i_r22>>
       [] TxOp = "subi_i" ->
            /\ i_r22' = (i_r22 - 1) % 256
            /\ SREG_Z' = IF (i_r22 - 1) % 256 = 0 THEN 1 ELSE 0
            /\ SREG_C' = IF i_r22 < 1 THEN 1 ELSE 0
            /\ UNCHANGED <<character, count>>
       [] TxOp = "inc" ->
            /\ count' = (count + 1) % 256
            /\ SREG_Z' = IF (count + 1) % 256 = 0 THEN 1 ELSE 0
            /\ UNCHANGED <<character, i_r22, SREG_C>>
       [] TxOp = "lsr" ->
            /\ character' = Lsr(character)[1]
            /\ SREG_C' = Lsr(character)[2]
            /\ SREG_Z' = IF Lsr(character)[1] = 0 THEN 1 ELSE 0
            /\ UNCHANGED <<count, i_r22>>
  /\ tx_cycles' = tx_cycles + TxCycles(TxOp, FALSE)
  /\ pcTx' = pcTx + 1
  /\ UNCHANGED <<tmp_reg, PORTB, tx_argument, tx_levels, vars85, vars13, varsAmp>>

\* in: the port is read.
Tx_in ==
  /\ TxOp = "in"
  /\ tmp_reg' = PORTB
  /\ tx_cycles' = tx_cycles + TxCycles(TxOp, FALSE)
  /\ pcTx' = pcTx + 1
  /\ UNCHANGED <<character, count, i_r22, SREG_C, SREG_Z, PORTB, tx_argument,
                 tx_levels, vars85, vars13, varsAmp>>

\* or, and: the bit of the pin is set or cleared in the value read.
Tx_logic ==
  /\ TxOp \in {"or", "and"}
  /\ tmp_reg' = IF TxOp = "or" THEN BitOr(tmp_reg, set_bit_pin)
                               ELSE BitAnd(tmp_reg, clear_bit_pin)
  /\ SREG_Z' = IF tmp_reg' = 0 THEN 1 ELSE 0
  /\ tx_cycles' = tx_cycles + TxCycles(TxOp, FALSE)
  /\ pcTx' = pcTx + 1
  /\ UNCHANGED <<character, count, i_r22, SREG_C, PORTB, tx_argument,
                 tx_levels, vars85, vars13, varsAmp>>

\* out: the port is written; the cycles are counted from this write on.
Tx_out ==
  /\ TxOp = "out"
  /\ PORTB' = tmp_reg
  /\ tx_levels' = Append(tx_levels, BitAnd(tmp_reg, set_bit_pin) \div set_bit_pin)
  /\ tx_cycles' = 0
  /\ pcTx' = pcTx + 1
  /\ UNCHANGED <<regsTx, tx_argument, vars85, vars13, varsAmp>>

\* brcc, brne, breq: the branches on the flags.
TxBranchTaken ==
  \/ TxOp = "brcc" /\ SREG_C = 0
  \/ TxOp = "brne" /\ SREG_Z = 0
  \/ TxOp = "breq" /\ SREG_Z = 1

Tx_branch ==
  /\ TxOp \in {"brcc", "brne", "breq"}
  /\ pcTx' = IF TxBranchTaken THEN TxTarget ELSE pcTx + 1
  /\ tx_cycles' = tx_cycles + TxCycles(TxOp, TxBranchTaken)
  /\ UNCHANGED <<regsTx, PORTB, tx_argument, tx_levels, vars85, vars13, varsAmp>>

\* rjmp, and rjmp .+0 as a pause of two cycles.
Tx_rjmp ==
  /\ TxOp = "rjmp"
  /\ pcTx' = TxTarget
  /\ tx_cycles' = tx_cycles + TxCycles(TxOp, TRUE)
  /\ UNCHANGED <<regsTx, PORTB, tx_argument, tx_levels, vars85, vars13, varsAmp>>

Tx_nop ==
  /\ TxOp = "nop"
  /\ pcTx' = pcTx + 1
  /\ tx_cycles' = tx_cycles + TxCycles(TxOp, FALSE)
  /\ UNCHANGED <<regsTx, PORTB, tx_argument, tx_levels, vars85, vars13, varsAmp>>

\* Line 130: the function returns to main().
Tx_ret ==
  /\ TxOp = "ret"
  /\ pcTx' = 0
  /\ UNCHANGED <<regsTx, PORTB, tx_argument, tx_levels, tx_cycles, vars85,
                 vars13, varsAmp>>

NextTx ==
  \/ Tx_call
  \/ Tx_register
  \/ Tx_in
  \/ Tx_logic
  \/ Tx_out
  \/ Tx_branch
  \/ Tx_rjmp
  \/ Tx_nop
  \/ Tx_ret

(***************************************************************************)
(*                       AMPLIFIER (src/amplifier/main.c)                  *)
(*                                                                         *)
(* main() initialises the globals and the peripherals, enables the         *)
(* interrupts and idles in an empty loop; every step of the program is a   *)
(* run of ISR(TIM0_OVF_vect), which reads the ADC and the gain pins.       *)
(***************************************************************************)

\* Line 58.
INPUT_SENSITIVITY == 250

\* Lines 59-62.
ADC_BIAS_DEFAULT == 512
ADC_BIAS_CORRECTION == 0 - 3
ADC_CLIP == 112
PWM_BIAS == 128

\* Lines 63-64.
PWM_CLIP_UPPER == PWM_BIAS + ADC_CLIP + ADC_BIAS_CORRECTION
PWM_CLIP_UNDER == PWM_BIAS - ADC_CLIP + ADC_BIAS_CORRECTION

\* Lines 135-136: PB2 and PB1 are the gain bits, PB1 the lower one.
pin_input == 2^2 + 2^1
pin_input_shift == 1

\* Values of PINB at a sample: every state of PB2 and PB1, and one with the
\* other pins high.
PinbSamples == {0, 2, 4, 6, 25, 31}

\* Values of the 10-bit conversion read from ADCL and ADCH at a sample.
AdcSamples == {0, 480, 512, 530, 1023}

RECURSIVE BitXor(_, _)
BitXor(a, b) ==
  IF a = 0 THEN b
  ELSE IF b = 0 THEN a
  ELSE (((a % 2) + (b % 2)) % 2) + 2 * BitXor(a \div 2, b \div 2)

\* int16_t arithmetic of adc_sample.value16.
S16(x) == ((x + 32768) % 65536) - 32768

\* Line 144: the gain bits, set by a low pin.
GainPins(pinb) ==
  BitAnd(BitXor(pinb, pin_input), pin_input) \div (2^pin_input_shift)

\* Line 152: the count after a sample that differs from the one before.
RestartCount_keep(c) == c
RestartCount(c) == INPUT_SENSITIVITY

\* Lines 155-165: the compare value of a conversion under a gain.
Amplify(adc, gain) ==
  LET biased == S16(adc - ADC_BIAS_DEFAULT)
      shifted == S16(biased * 2^gain)
      added == S16(shifted + PWM_BIAS)
      upper == IF added > PWM_CLIP_UPPER THEN PWM_CLIP_UPPER ELSE added
      under == IF upper < PWM_CLIP_UNDER THEN PWM_CLIP_UNDER ELSE upper
  IN  under % 256

\* Lines 86-88 and 110: the program when the interrupts are enabled.
InitAmp ==
  /\ input_sensitivity_count = INPUT_SENSITIVITY
  /\ input_pin_last = 0
  /\ input_pin_buffer = 0
  /\ OCR0A_amp = PWM_BIAS
  /\ gain_pins_shown = 0
  /\ gain_pins_run = 0

\* ISR(TIM0_OVF_vect), lines 132-167.
Amp_ISR_TIM0_OVF ==
  \E adc \in AdcSamples, pinb \in PinbSamples :
    LET pin_read == GainPins(pinb)     \* input_pin of line 144
        match == pin_read = input_pin_last
        decremented == U16(input_sensitivity_count - 1)
        commit == match /\ decremented = 0
        buffer == IF commit THEN pin_read ELSE input_pin_buffer
    IN  /\ input_pin_last' = pin_read
        /\ input_sensitivity_count' =
             IF match
             THEN (IF commit THEN INPUT_SENSITIVITY ELSE decremented)
             ELSE RestartCount(input_sensitivity_count)
        /\ input_pin_buffer' = buffer
        /\ OCR0A_amp' = Amplify(adc, buffer)
        /\ gain_pins_shown' = pin_read
        /\ gain_pins_run' =
             IF gain_pins_run > 0 /\ pin_read = gain_pins_shown
             THEN (IF gain_pins_run > INPUT_SENSITIVITY
                   THEN gain_pins_run ELSE gain_pins_run + 1)
             ELSE 1
        /\ UNCHANGED <<vars85, vars13, varsTx>>

NextAmp == Amp_ISR_TIM0_OVF

Main85 ==
  \/ Main85_L90
  \/ Main85_L91
  \/ Main85_L92
  \/ Main85_L95
  \/ Main85_L102
  \/ Main85_L112
  \/ Main85_L113
  \/ Main85_L114

vars == <<vars85, vars13, varsTx, varsAmp>>

Next85 ==
  \/ Main85
  \/ ISR_TIMER0_OVF
  \/ ISR_TIMER1_OVF

Init == Init85 /\ Init13 /\ InitTx /\ InitAmp

\* The remote-clock program.
SpecRemote == Init /\ [][Next85]_vars

\* The remote-clock program with the frames counted: the start frames the
\* receive handler has delivered against the clocks main() has counted.
InitFrames ==
  /\ Init85Main
  /\ rx_frames_observed = 1
  /\ rx_start_frames_ahead = 0
  /\ Init13
  /\ InitTx
  /\ InitAmp

SpecRemoteFrames == InitFrames /\ [][Next85]_vars

\* The amplifier.
SpecAmp == Init /\ [][NextAmp]_vars

\* The local-clock program.
SpecLocal == Init /\ [][Next13]_vars

\* The blocking transmit, called with every byte.
SpecTx == Init /\ [][NextTx]_vars

\* The local-clock program under another schedule: main() is never late for a
\* clock step, and the selector changes once more, so that a run, a hard reset
\* and a second run fit.
InitRuns ==
  /\ Init85
  /\ InitTx
  /\ InitAmp
  /\ Init13Main
  /\ pending = 0
  /\ overruns = MaxOverruns
  /\ selector_changes = -1

SpecLocalRuns == InitRuns /\ [][Next13]_vars

\* The waveform synthesizer alone: a note of the chain has been handed over
\* (lines 209-214) and its parameters stay; the clock of the sequencer is not
\* started, so that the handler runs for any number of samples.
InitWave ==
  /\ Init85
  /\ InitTx
  /\ InitAmp
  /\ pc13 = "L141"
  /\ SREG_I = 1
  /\ input_pin = 0
  /\ \E v \in 1..11 :
       /\ sequencer_value = v
       /\ count_per_2pi_buffer = NoteChain[v][1]
       /\ fixed_delta_sawtooth_buffer = NoteChain[v][2]
       /\ osccal_tuning = NoteChain[v][3]
       /\ count_per_2pi = NoteChain[v][1]
       /\ fixed_delta_sawtooth = NoteChain[v][2]
  /\ function_start = 1
  /\ sample_count = 0
  /\ fixed_value_sawtooth = 0
  /\ OCR0A = PEAK_LOW
  /\ sequencer_count_last = 0
  /\ osccal_pitch = 0
  /\ count_update_reg = 0
  /\ sequencer_count_start = 0
  /\ sequencer_interval_count = 0
  /\ sequencer_count_update13 = 0
  /\ OSCCAL = osccal_default
  /\ pending = 0
  /\ overruns = 0
  /\ selector_changes = 0

NextWave == ISR_TIM0_OVF

\* The samples of each note of the chain.
SpecWave == InitWave /\ [][NextWave]_vars

\* The notes the step before can have left in the buffers of main(): silence
\* (0) or a note of the chain.
PreviousNotes == 0..11

\* The pitch trims the steps before can have left.
PreviousPitches == {-16, 0, 16}

\* One step of a running sequence, from the decode of line 156 on: any step
\* value, after any note and any pitch trim.
InitStep ==
  /\ Init85
  /\ InitTx
  /\ InitAmp
  /\ pc13 = "L156"
  /\ SREG_I = 1
  /\ input_pin = 3
  /\ sequencer_count_last = 0
  /\ sequencer_value \in 0..255
  /\ \E u \in PreviousNotes :
       /\ count_per_2pi_buffer = IF u = 0 THEN 0 ELSE NoteChain[u][1]
       /\ fixed_delta_sawtooth_buffer = IF u = 0 THEN 0 ELSE NoteChain[u][2]
       /\ osccal_tuning = IF u = 0 THEN 0 ELSE NoteChain[u][3]
       /\ count_per_2pi = IF u = 0 THEN 0 ELSE NoteChain[u][1]
       /\ fixed_delta_sawtooth = IF u = 0 THEN 0 ELSE NoteChain[u][2]
       /\ function_start = IF u = 0 THEN 0 ELSE 1
  /\ osccal_pitch \in PreviousPitches
  /\ count_update_reg = 0
  /\ sample_count = 0
  /\ fixed_value_sawtooth = 0
  /\ sequencer_count_start = 1
  /\ sequencer_interval_count = 0
  /\ sequencer_count_update13 = 0
  /\ OCR0A = PEAK_LOW
  /\ OSCCAL = osccal_default
  /\ pending = 0
  /\ overruns = 0
  /\ selector_changes = 0

\* Lines 156-223 of one iteration of main(), the handler held off.
NextStep ==
  \/ Main13_L156
  \/ Main13_cli
  \/ Main13_NoteOn
  \/ Main13_NoteOff
  \/ Main13_sei
  \/ Main13_L223

\* The decode and the handoff of one step, for every step value.
SpecStep == InitStep /\ [][NextStep]_vars

(***************************************************************************)
(* Properties of the remote-clock variant.                                 *)
(***************************************************************************)

\* A step of main(), as opposed to a step of an interrupt handler.
MainStep85 == pc85' # pc85

\* min(select field, last row): the row the clamping is meant to yield.
SelectedRow(b) ==
  LET f == b % 8
  IN  IF f < SEQUENCER_PROGRAM_LENGTH - 1 THEN f ELSE SEQUENCER_PROGRAM_LENGTH - 1

\* C1: every table read sequencer_program_array[program_index][count_last - 1]
\* is in bounds: the row is in 0..SEQUENCER_PROGRAM_LENGTH-1 and count_last is
\* in 1..SEQUENCER_PROGRAM_COUNTUPTO, for every sequence of received bytes.
C1_TableReadInBounds ==
  pc85 = "L112" =>
    /\ program_index \in 0..(SEQUENCER_PROGRAM_LENGTH - 1)
    /\ count_last \in 1..SEQUENCER_PROGRAM_COUNTUPTO

\* The read after a wrap of the counter, with a select field past the table.
C1_Witness ==
  /\ pc85 = "L112"
  /\ uart_byte_last % 8 >= SEQUENCER_PROGRAM_LENGTH
  /\ decodes = SEQUENCER_PROGRAM_COUNTUPTO + 1
  /\ count_last = 1

\* C4: the serial handler never runs between the write of
\* software_uart_tx_byte (line 113) and the write of software_uart_tx_count
\* (line 114), so it never shifts a bit of the new byte under the old count.
C4_TxHandoffAtomic ==
  [][(pc85 = "L114" /\ pc85' = "L114")
       => software_uart_tx_count' = software_uart_tx_count]_vars

\* C5: a start byte met while idle sets sequencer_is_start = 1,
\* sequencer_count_update = 1 and count_last = 0 in one pass of lines 95-98,
\* and the decode of that same iteration is that of step 1: the first byte
\* forwarded after a start is entry 1 of the selected program.
C5_StartDecodesStepOne ==
  /\ [][(MainStep85 /\ pc85 = "L95" /\ sequencer_is_start = 0
           /\ uart_byte_last % 16 >= 8 /\ (uart_byte_last \div 16) % 2 = 1
           /\ (uart_byte_last \div 64) % 2 = 1)
          => /\ sequencer_is_start' = 1
             /\ sequencer_count_update' = 1
             /\ count_last' = 0
             /\ pc85' = "L102"]_vars
  /\ []((sequencer_is_start = 1 /\ decodes = 0)
          => (pc85 = "L102" /\ sequencer_count_update = 1 /\ count_last = 0))
  /\ []((decodes = 1 /\ pc85 \in {"L113", "L114"})
          => /\ count_last = 1
             /\ sequencer_program_byte =
                  sequencer_program_array(SelectedRow(uart_byte_last), 0))
  /\ []((decodes = 1 /\ pc85 = "L114")
          => software_uart_tx_byte =
               sequencer_program_array(SelectedRow(uart_byte_last), 0))

\* A start that follows a stop, with the first byte of the run handed over.
C5_Witness ==
  /\ decodes = 1
  /\ pc85 = "L114"
  /\ software_uart_tx_byte = sequencer_program_array(1, 0)
  /\ OCR0B = sequencer_program_array(0, 1)

\* C6: while running, a main step increments sequencer_count_update exactly
\* when it is the read (lines 92-93) of a start byte after an observed change
\* of the toggle bit, and then by exactly 1; no other step increments it.
C6_ClockOncePerToggle ==
  [][IF MainStep85 /\ sequencer_is_start # 0
     THEN IF pc85 = "L92" /\ IsStartByte(software_uart_rx_byte_buffer)
          THEN sequencer_count_update' = sequencer_count_update + 1
          ELSE sequencer_count_update' <= sequencer_count_update
     ELSE MainStep85 \/ sequencer_count_update' = sequencer_count_update]_vars

\* The running sequencer just clocked from step 2 to step 3.
C6_Witness ==
  /\ pc85 = "L95"
  /\ sequencer_is_start = 1
  /\ count_last = 2
  /\ sequencer_count_update = 3

\* C7 as stated: every byte with bit 3 clear stops the running sequencer,
\* whatever its other bits.
C7_AnyClearStartBitStops ==
  [][(MainStep85 /\ pc85 = "L95" /\ sequencer_is_start # 0
        /\ (uart_byte_last \div 8) % 2 = 0)
       => sequencer_is_start' = 0]_vars

\* C7 as amended: a byte with bit 3 clear and the group bits 6 and 4 set
\* stops the running sequencer on the next pass of lines 99-101; a byte with
\* bit 3 clear whose bit 6 or bit 4 is clear leaves it running.
C7_GroupStopByteStops ==
  [][(MainStep85 /\ pc85 = "L95" /\ sequencer_is_start # 0
        /\ (uart_byte_last \div 8) % 2 = 0)
       => IF (uart_byte_last \div 16) % 2 = 1 /\ (uart_byte_last \div 64) % 2 = 1
          THEN sequencer_is_start' = 0
          ELSE sequencer_is_start' = sequencer_is_start]_vars

\* Stopped by 0x50 after a run.
C7_Witness ==
  /\ pc85 = "L102"
  /\ sequencer_is_start = 0
  /\ uart_byte_last = 80
  /\ decodes >= 1

\* C8: after the k-th decode since a start the step counter is
\* ((k - 1) mod SEQUENCER_PROGRAM_COUNTUPTO) + 1: the steps are 1, 2, ...,
\* COUNTUPTO in order, then 1 again, never 0 and none skipped or repeated.
C8_Wraparound ==
  (pc85 = "L112" /\ decodes < MaxDecodes) =>
    /\ count_last = ((decodes - 1) % SEQUENCER_PROGRAM_COUNTUPTO) + 1
    /\ sequencer_count_update = count_last

\* Back at step 1 after SEQUENCER_PROGRAM_COUNTUPTO clocks.
C8_Witness ==
  /\ pc85 = "L113"
  /\ decodes = SEQUENCER_PROGRAM_COUNTUPTO + 1
  /\ count_last = 1
  /\ sequencer_is_start = 1

\* C9: main() writes sequencer_program_byte, software_uart_tx_byte and
\* software_uart_tx_count only in the decode that a change of the counter
\* starts, once each: both bytes become the table entry
\* [min(select field, last row)][step - 1] and the count becomes 9.
C9_ForwardOnChange ==
  [][MainStep85 =>
       CASE pc85 = "L102" ->
              /\ (pc85' = "L112") = (sequencer_count_update # count_last)
              /\ UNCHANGED <<sequencer_program_byte, software_uart_tx_byte,
                             software_uart_tx_count>>
         [] pc85 = "L112" ->
              /\ sequencer_program_byte' =
                   sequencer_program_array(SelectedRow(uart_byte_last), count_last - 1)
              /\ pc85' = "L113"
              /\ UNCHANGED <<software_uart_tx_byte, software_uart_tx_count>>
         [] pc85 = "L113" ->
              /\ software_uart_tx_byte' =
                   sequencer_program_array(SelectedRow(uart_byte_last), count_last - 1)
              /\ pc85' = "L114"
              /\ UNCHANGED <<sequencer_program_byte, software_uart_tx_count>>
         [] pc85 = "L114" ->
              /\ software_uart_tx_count' = 9
              /\ software_uart_tx_byte = sequencer_program_byte
              /\ pc85' = "L90"
              /\ UNCHANGED <<sequencer_program_byte, software_uart_tx_byte>>
         [] OTHER ->
              UNCHANGED <<sequencer_program_byte, software_uart_tx_byte,
                          software_uart_tx_count>>]_vars

\* Step 2 of the last row, selected by a field past the table, is enqueued.
C9_Witness ==
  /\ pc85 = "L90"
  /\ uart_byte_last = 95
  /\ count_last = 2
  /\ software_uart_tx_byte = sequencer_program_array(SEQUENCER_PROGRAM_LENGTH - 1, 1)
  /\ software_uart_tx_count = 9

\* C10: the stop (lines 99-101) changes sequencer_is_start alone, and from
\* an idle state to an idle state no step changes sequencer_count_update or
\* OCR0B: the device rests at the last step and the last output value.
C10_StopIsNotForceStop ==
  /\ [][(sequencer_is_start # 0 /\ sequencer_is_start' = 0)
          => /\ pc85 = "L95"
             /\ UNCHANGED <<sequencer_count_update, count_last,
                            sequencer_program_byte, software_uart_tx_byte,
                            software_uart_tx_count, OCR0B>>]_vars
  /\ [][(sequencer_is_start = 0 /\ sequencer_is_start' = 0)
          => UNCHANGED <<sequencer_count_update, OCR0B>>]_vars

\* Idle after a run, the frame of the last step still in flight, and the
\* output still at the value of the step before.
C10_Witness ==
  /\ sequencer_is_start = 0
  /\ decodes = 2
  /\ software_uart_tx_count \in 1..8
  /\ OCR0B # 0
  /\ OCR0B # sequencer_program_byte

(***************************************************************************)
(* Properties of the local-clock variant.                                  *)
(***************************************************************************)

\* C2: the read sequencer_array[input_pin - 1][sequencer_count_last] of line
\* 154 uses a row in 0..2 and a step index in 0..63, under every interleaving
\* of the handler with main().
C2_StepIndexInBounds ==
  pc13 = "L152" =>
    /\ (IF input_pin >= 3 THEN 3 ELSE input_pin) - 1 \in 0..2
    /\ sequencer_count_last \in 0..63

\* C3: whenever the handler can be entered with function_start = 1, the pair
\* (count_per_2pi, fixed_delta_sawtooth) is the pair of one note of the chain:
\* never the wrap period of one note with the phase increment of another.
C3_AtomicHandoff ==
  (SREG_I = 1 /\ function_start = 1) =>
    \E v \in 1..11 : /\ count_per_2pi = NoteChain[v][1]
                     /\ fixed_delta_sawtooth = NoteChain[v][2]

\* Sequence No.1 has gone from step 8 (note 6) to step 9 (note 8) with no
\* silence between: the parameters of note 8 have replaced those of note 6.
C3_Witness ==
  /\ pc13 = "L223"
  /\ SREG_I = 1
  /\ input_pin = 1
  /\ sequencer_count_last = 9
  /\ function_start = 1
  /\ count_per_2pi = 47
  /\ fixed_delta_sawtooth = 694

\* C11: the decode of a step value is total. A value in 1..11 selects the
\* triple of that note, a value of 223 and more only sets osccal_pitch to
\* v - 239, and every other value (0 and 12..222) gives silence: both buffers
\* and osccal_tuning 0.
C11_DecodeTotal ==
  [][pc13 = "L156" =>
       LET v == sequencer_value
       IN  \/ /\ v \in 1..11
               /\ <<count_per_2pi_buffer', fixed_delta_sawtooth_buffer',
                    osccal_tuning'>> = NoteChain[v]
               /\ osccal_pitch' = osccal_pitch
           \/ /\ v \in 223..255
               /\ osccal_pitch' = v - 239
               /\ UNCHANGED <<count_per_2pi_buffer, fixed_delta_sawtooth_buffer,
                              osccal_tuning>>
           \/ /\ v \in {0} \cup 12..222
               /\ count_per_2pi_buffer' = 0
               /\ fixed_delta_sawtooth_buffer' = 0
               /\ osccal_tuning' = 0
               /\ osccal_pitch' = osccal_pitch]_vars

\* Step value 100, in no band, has been decoded to silence while note 8 was
\* sounding: the silence branch of the handoff is entered.
C11_Witness ==
  /\ pc13 = "L216"
  /\ sequencer_value = 100
  /\ count_per_2pi_buffer = 0
  /\ fixed_delta_sawtooth_buffer = 0
  /\ osccal_tuning = 0
  /\ count_per_2pi = 47

\* The sequencer is stopped and silent: the state the hard reset leaves.
Stopped13 ==
  /\ sequencer_count_start = 0
  /\ sequencer_count_update13 = 0
  /\ sequencer_interval_count = 0
  /\ sequencer_count_last = 0
  /\ count_per_2pi = 0
  /\ function_start = 0
  /\ OCR0A = PEAK_LOW

\* C12: the hard reset. The reset path is entered only from a running
\* sequencer with both buttons polled released; at the sei() that ends it
\* (line 235) the seven variables are reset together, with the handler held
\* off all through; whenever the handler can run while the sequencer is not
\* started they are still so, whatever the number of ticks; and the run that
\* follows starts at step index 0.
C12_HardReset ==
  /\ [](pc13 \in {"L227", "L228"} =>
          sequencer_count_start = 1 /\ input_pin = 0)
  /\ [](pc13 = "L228" => SREG_I = 0)
  /\ [](pc13 = "L235" => SREG_I = 0 /\ Stopped13)
  /\ []((sequencer_count_start = 0 /\ SREG_I = 1) => Stopped13)
  /\ [][(sequencer_count_start = 0 /\ sequencer_count_start' = 1) =>
          /\ input_pin' # 0
          /\ sequencer_count_last' = 0
          /\ sequencer_count_update13' = 0
          /\ sequencer_interval_count' = 0]_vars

\* A run of Sequence No.3 has set the pitch trim, both buttons were released,
\* and Sequence No.1 has been started: its step 0 is read, with silence.
C12_Witness ==
  /\ pc13 = "L156"
  /\ input_pin = 1
  /\ sequencer_count_start = 1
  /\ sequencer_count_last = 0
  /\ sequencer_value = 6
  /\ osccal_pitch = -1
  /\ function_start = 0
  /\ count_per_2pi = 0
  /\ OCR0A = PEAK_LOW

\* A step of main() of the local variant, as opposed to a step of the handler.
MainStep13 == pc13' # pc13

\* C14: the selector. Steps are played only with a selector other than 00 and
\* the reset path is taken only with 00; the step value read is that of row
\* selector - 1 (01 Sequence No.1, 10 No.2, 11 No.3) at the current step; and
\* no step of main() with a selector other than 00 resets the step counter or
\* the interval counter: only the wrap of line 150 writes the step counter.
C14_Selector ==
  /\ []((pc13 \in {"L149", "L150", "L150w", "L151", "L152"}) => input_pin \in 1..3)
  /\ [](pc13 \in {"L226", "L227", "L228"} => input_pin = 0)
  /\ [][(MainStep13 /\ pc13 = "L152"
                     /\ sequencer_count_last < SEQUENCER_COUNTUPTO) =>
          sequencer_value' =
            sequencer_array[(input_pin - 1) * SEQUENCER_COUNTUPTO
                            + sequencer_count_last + 1]]_vars
  /\ [][(MainStep13 /\ input_pin' # 0) =>
          /\ sequencer_interval_count' = sequencer_interval_count
          /\ \/ sequencer_count_update13' = sequencer_count_update13
             \/ /\ pc13 = "L150w"
                /\ sequencer_count_update13 >= SEQUENCER_COUNTUPTO
                /\ sequencer_count_update13' = 0]_vars

\* Sequence No.3 was started and has set the pitch trim at step 1; the
\* selector then went to 10 and step 2 is read from Sequence No.2.
C14_Witness ==
  /\ pc13 = "L156"
  /\ input_pin = 2
  /\ sequencer_count_start = 1
  /\ sequencer_count_last = 2
  /\ sequencer_value = 4
  /\ osccal_pitch = -1
  /\ selector_changes = 2

\* C15: debounce. input_pin holds the selector of the poll before until the
\* poll of lines 141-148 writes it. A poll that reads another selector than
\* the poll before has seen that raw state once only: it does not enter the
\* start path (line 149 on, sequencer not started) and does not enter the
\* reset path (line 226 on, sequencer started) on the strength of it.
C15_Debounce ==
  [][(MainStep13 /\ pc13 = "L141" /\ input_pin' # input_pin) =>
       /\ ~(sequencer_count_start = 0 /\ pc13' = "L149")
       /\ ~(sequencer_count_start = 1 /\ pc13' = "L226")]_vars

\* C16: the internal clock. sequencer_interval_count is in
\* 0..SEQUENCER_INTERVAL-1 whenever the handler is not running. A run of the
\* handler with the sequencer started counts the interval up by one, and on
\* the run that completes the interval, and on no other, sets it to 0 and
\* counts sequencer_count_update up by one: once every SEQUENCER_INTERVAL
\* runs. With the sequencer not started the handler changes neither.
C16_InternalClock ==
  /\ [](sequencer_interval_count \in 0..(SEQUENCER_INTERVAL - 1))
  /\ [][(~MainStep13 /\ sequencer_count_start # 0) =>
          \/ /\ sequencer_interval_count < SEQUENCER_INTERVAL - 1
             /\ sequencer_interval_count' = sequencer_interval_count + 1
             /\ sequencer_count_update13' = sequencer_count_update13
          \/ /\ sequencer_interval_count = SEQUENCER_INTERVAL - 1
             /\ sequencer_interval_count' = 0
             /\ sequencer_count_update13' = sequencer_count_update13 + 1]_vars
  /\ [][(~MainStep13 /\ sequencer_count_start = 0) =>
          UNCHANGED <<sequencer_interval_count, sequencer_count_update13>>]_vars

\* The clock has stepped three times since the start and counts the fourth
\* interval.
C16_Witness ==
  /\ sequencer_count_start = 1
  /\ sequencer_count_update13 = 3
  /\ sequencer_interval_count = SEQUENCER_INTERVAL - 1
  /\ sequencer_count_last = 3

\* C17: silence. Whenever interrupts are enabled, function_start = 0 goes with
\* OCR0A = PEAK_LOW and count_per_2pi = 0, and function_start = 1 with a
\* count_per_2pi other than 0; and a run of the handler with function_start = 0
\* leaves OCR0A.
C17_Silence ==
  /\ [](function_start \in {0, 1})
  /\ []((SREG_I = 1 /\ function_start = 0) =>
          (OCR0A = PEAK_LOW /\ count_per_2pi = 0))
  /\ []((SREG_I = 1 /\ function_start = 1) => count_per_2pi # 0)
  /\ [][(~MainStep13 /\ function_start = 0) => OCR0A' = OCR0A]_vars

\* Step 0 of Sequence No.1 (note 6) has sounded for two samples, and step 1
\* (silence) has been handed over: the accumulator keeps the last value of
\* the note, the compare register is back at PEAK_LOW.
C17_Witness ==
  /\ pc13 = "L223"
  /\ SREG_I = 1
  /\ input_pin = 1
  /\ sequencer_count_last = 1
  /\ sequencer_value = 0
  /\ function_start = 0
  /\ count_per_2pi = 0
  /\ fixed_value_sawtooth = 582
  /\ OCR0A = PEAK_LOW

\* C18: one cycle of the waveform. With constant parameters p = count_per_2pi
\* and d = fixed_delta_sawtooth, sample_count stays in 0..p; the sample at
\* sample_count = 0 sets OCR0A to PEAK_LOW and the accumulator to 0; the sample
\* at sample_count = k in 1..p makes the accumulator k * d and does not lower
\* OCR0A; and the sample at k = p sets sample_count back to 0: a cycle is
\* p + 1 samples.
C18_WaveformCycle ==
  /\ [](sample_count \in 0..count_per_2pi)
  /\ [](sample_count >= 1 =>
          fixed_value_sawtooth = (sample_count - 1) * fixed_delta_sawtooth)
  /\ [](sample_count = 0 =>
          fixed_value_sawtooth \in {0, count_per_2pi * fixed_delta_sawtooth})
  /\ [][sample_count = 0 =>
          /\ OCR0A' = PEAK_LOW
          /\ fixed_value_sawtooth' = 0
          /\ sample_count' = 1]_vars
  /\ [][(sample_count \in 1..count_per_2pi) =>
          /\ fixed_value_sawtooth' = sample_count * fixed_delta_sawtooth
          /\ OCR0A' >= OCR0A
          /\ OCR0A' \in 0..255
          /\ sample_count' = (IF sample_count = count_per_2pi
                               THEN 0 ELSE sample_count + 1)]_vars

\* The note with the largest phase increment (932, 35) is at the top of its
\* ramp, 36 samples after the start: the next sample starts the next cycle.
C18_Witness ==
  /\ count_per_2pi = 35
  /\ fixed_delta_sawtooth = 932
  /\ function_start = 1
  /\ sample_count = 0
  /\ fixed_value_sawtooth = 35 * 932
  /\ OCR0A = 255

\* C19: calibration steps. The decode of a step value v in 223..255 sets
\* osccal_pitch to v - 239, in -16..16, leaves the buffers of the note, and
\* goes on to line 223 past both handoffs; that line leaves the parameters of
\* the synthesizer too, so the note (or the silence) goes on.
C19_Calibration ==
  /\ [][(MainStep13 /\ pc13 = "L156" /\ sequencer_value \in 223..255) =>
          /\ osccal_pitch' = sequencer_value - 239
          /\ osccal_pitch' \in -16..16
          /\ pc13' = "L223"
          /\ UNCHANGED <<count_per_2pi_buffer, fixed_delta_sawtooth_buffer,
                         osccal_tuning>>
          /\ UNCHANGED <<count_per_2pi, fixed_delta_sawtooth, function_start,
                         sample_count>>]_vars
  /\ [][(MainStep13 /\ pc13 = "L223") =>
          /\ pc13' = "L141"
          /\ UNCHANGED <<count_per_2pi, fixed_delta_sawtooth, function_start,
                         sample_count>>]_vars

\* Sequence No.3 had set the pitch trim to -2 (step 2) before its step 0 was
\* played again, as after a hard reset and a second start; the calibration
\* value of step 1 is now decoded and note 8 of step 0 goes on. OSCCAL still
\* holds the trim of step 0.
C19_Witness ==
  /\ pc13 = "L223"
  /\ input_pin = 3
  /\ sequencer_count_last = 1
  /\ sequencer_value = 238
  /\ osccal_pitch = -1
  /\ OSCCAL = 255
  /\ function_start = 1
  /\ count_per_2pi = 47
  /\ fixed_delta_sawtooth = 694

\* C21: the range of the waveform. For every note of the chain and every
\* sample of a cycle the accumulator stays below 0x8000, and the compare value
\* written to OCR0A is bits 14:7 of the accumulator plus its bit 6, a value in
\* 0..255: the round-up never gives 256.
C21_WaveformRange ==
  /\ [](fixed_value_sawtooth \in 0..32767)
  /\ [](OCR0A \in 0..255)
  /\ [][(sample_count \in 1..count_per_2pi) =>
          LET acc == fixed_value_sawtooth'
              rounded == ((acc \div 128) % 256) + ((acc \div 64) % 2)
          IN  /\ acc = fixed_value_sawtooth + fixed_delta_sawtooth
              /\ rounded \in 0..255
              /\ OCR0A' = rounded]_vars

\* The note with the longest wrap period (343, 95) is at the top of its ramp:
\* the accumulator is 95 * 343 = 0x7F49 and the compare value is rounded up to
\* 255.
C21_Witness ==
  /\ count_per_2pi = 95
  /\ fixed_delta_sawtooth = 343
  /\ function_start = 1
  /\ sample_count = 0
  /\ fixed_value_sawtooth = 32585
  /\ OCR0A = 255

(***************************************************************************)
(* C22: remote-clock variant, one clock per start frame.  Over every       *)
(* interleaving of the receive handler with the reads of lines 90, 91 and  *)
(* 92, the clocks main() has counted at line 93 never exceed the start     *)
(* frames the handler has delivered: the observer of the difference never  *)
(* falls below zero.  The byte main() acts on is always the byte in the    *)
(* receive buffer at line 92, which only the handler writes.               *)
(***************************************************************************)
C22_OneClockPerStartFrame ==
  rx_frames_observed = 1 => rx_start_frames_ahead >= 0

(***************************************************************************)
(* C23: sustained notes.  A step that decodes to the wrap period of the    *)
(* note that sounds goes straight to line 223: main() enters the handoff   *)
(* of lines 209-213 only with a decoded wrap period that differs from      *)
(* count_per_2pi and is not 0, and the handoff of lines 216-219 only with  *)
(* a decoded wrap period of 0 that differs; a step of main() writes        *)
(* sample_count, count_per_2pi, fixed_delta_sawtooth, function_start or    *)
(* OCR0A only inside those two handoffs or the reset of lines 227-235;     *)
(* and the only write of sample_count by main() is the one of line 210.    *)
(***************************************************************************)
C23_SustainedNote ==
  /\ [][(MainStep13 /\ pc13 = "L156" /\ count_per_2pi_buffer' = count_per_2pi) =>
          /\ pc13' = "L223"
          /\ UNCHANGED <<sample_count, count_per_2pi, fixed_delta_sawtooth,
                         function_start, OCR0A>>]_vars
  /\ [](pc13 \in {"L209", "L210"} =>
          (count_per_2pi_buffer # count_per_2pi /\ count_per_2pi_buffer # 0))
  /\ [](pc13 \in {"L216", "L217"} =>
          (count_per_2pi_buffer # count_per_2pi /\ count_per_2pi_buffer = 0))
  /\ [][(MainStep13 /\ <<sample_count, count_per_2pi, fixed_delta_sawtooth,
                          function_start, OCR0A>>' #
                        <<sample_count, count_per_2pi, fixed_delta_sawtooth,
                          function_start, OCR0A>>) =>
          pc13 \in {"L210", "L211", "L212", "L213",
                    "L217", "L218", "L219", "L228"}]_vars
  /\ [][(MainStep13 /\ sample_count' # sample_count) =>
          (pc13 = "L210" /\ sample_count' = 0)]_vars

\* Sequence No.2 plays note 4 at steps 1 and 2: step 2 has been decoded and
\* main() is at line 223 with the note of step 1 still sounding, three samples
\* into its cycle.
C23_Witness ==
  /\ pc13 = "L223"
  /\ SREG_I = 1
  /\ input_pin = 2
  /\ sequencer_count_last = 2
  /\ sequencer_value = 4
  /\ count_per_2pi_buffer = count_per_2pi
  /\ count_per_2pi = NoteChain[4][1]
  /\ fixed_delta_sawtooth = NoteChain[4][2]
  /\ function_start = 1
  /\ sample_count = 3
  /\ fixed_value_sawtooth = 2 * NoteChain[4][2]

(***************************************************************************)
(* Properties of the blocking transmit.                                    *)
(***************************************************************************)

\* Bit k of a byte.
BitOf(b, k) == (b \div (2 ^ k)) % 2

\* The byte a receiver reads from a frame of 10 levels: the 8 levels after the
\* start bit, the first of them bit 0.
RECURSIVE DecodeFrameFrom(_, _)
DecodeFrameFrom(levels, k) ==
  IF k > 7 THEN 0
  ELSE levels[k + 2] * (2 ^ k) + DecodeFrameFrom(levels, k + 1)

DecodeFrame(levels) == DecodeFrameFrom(levels, 0)

\* The frame with the level at one position inverted.
FlipLevel(levels, n) == [levels EXCEPT ![n] = 1 - levels[n]]

\* C13: the levels written to the tx pin are 10 bits: the start bit 0, the bits
\* 0..7 of the byte with bit 0 first, the stop bit 1. Reading the 8 data bits
\* back gives the byte, and a frame with one data bit inverted reads as the
\* byte with that one bit changed.
C13_FrameRoundTrip ==
  /\ Len(tx_levels) <= 10
  /\ TxOp = "ret" =>
       /\ Len(tx_levels) = 10
       /\ tx_levels[1] = 0
       /\ \A k \in 0..7 : tx_levels[k + 2] = BitOf(tx_argument, k)
       /\ tx_levels[10] = 1
       /\ DecodeFrame(tx_levels) = tx_argument
       /\ \A k \in 0..7 :
            DecodeFrame(FlipLevel(tx_levels, k + 2)) =
              IF BitOf(tx_argument, k) = 0 THEN tx_argument + 2 ^ k
                                           ELSE tx_argument - 2 ^ k

\* The byte 0xA5 has been sent: the whole frame is on the line.
C13_Witness ==
  /\ TxOp = "ret"
  /\ tx_argument = 165
  /\ tx_levels = <<0, 1, 0, 1, 0, 0, 1, 0, 1, 1>>
  /\ PORTB = set_bit_pin

\* Line 80: the CPU cycles of one bit, 14 of the loop and 236 of the delay.
BitCycles == 14 + 236

\* C20: every write to PORTB after the first comes the same number of cycles
\* after the one before it: 250, for the start bit, between data bits and
\* before the stop bit, whatever the levels of the bits.
C20_BitTiming ==
  (TxOp = "out" /\ Len(tx_levels) >= 1) => tx_cycles + 1 = BitCycles

\* The stop bit of 0xA5 is about to be written, 249 cycles after bit 7: set
\* and cleared bits went before.
C20_Witness ==
  /\ pcTx = 24
  /\ tx_argument = 165
  /\ Len(tx_levels) = 9
  /\ tx_cycles = 249

(***************************************************************************)
(* Properties of the amplifier.                                            *)
(***************************************************************************)

\* C24: the debounce of the gain pins. input_pin_buffer changes only to the
\* value the gain pins show, and only when they have shown it on at least
\* INPUT_SENSITIVITY consecutive samples; a sample that differs from the one
\* before leaves input_sensitivity_count at INPUT_SENSITIVITY and leaves
\* input_pin_buffer; and input_sensitivity_count is in 1..INPUT_SENSITIVITY
\* at the exit of every run of the handler.
C24_GainDebounce ==
  /\ [](input_sensitivity_count \in 1..INPUT_SENSITIVITY)
  /\ [](input_pin_buffer \in 0..3)
  /\ [][(input_pin_buffer' # input_pin_buffer) =>
          /\ input_pin_buffer' = gain_pins_shown'
          /\ gain_pins_run' >= INPUT_SENSITIVITY]_vars
  /\ [][(gain_pins_run > 0 /\ gain_pins_shown' # gain_pins_shown) =>
          /\ input_sensitivity_count' = INPUT_SENSITIVITY
          /\ input_pin_buffer' = input_pin_buffer]_vars

\* PB2 low and PB1 high (gain bits 10) have been shown on more than
\* INPUT_SENSITIVITY samples in a row and are the gain applied: the count is
\* back at INPUT_SENSITIVITY and a conversion of 530 is amplified by 4.
C24_Witness ==
  /\ input_pin_buffer = 2
  /\ input_pin_last = 2
  /\ gain_pins_shown = 2
  /\ gain_pins_run = INPUT_SENSITIVITY + 1
  /\ input_sensitivity_count = INPUT_SENSITIVITY
  /\ OCR0A_amp = 200


=============================================================================
